---- MODULE Spec2Model ----
(***************************************************************************)
(* GardenerCluster status conditions (api/v1/gardenercluster_types.go).    *)
(*                                                                         *)
(* The state is one GardenerCluster object: its Spec, Status.State and     *)
(* Status.Conditions, and the wall clock that metav1.Now() reads.  The     *)
(* operations are the two exported mutators UpdateConditionForReadyState   *)
(* and UpdateConditionForErrorState.                                       *)
(*                                                                         *)
(* Strings that the code builds with fmt.Sprintf are modelled as the       *)
(* sequence of their pieces, so that "the message contains the error       *)
(* text" is a property of the value and not of its construction.           *)
(***************************************************************************)
EXTENDS Integers, Sequences, FiniteSets

\* Largest clock reading explored.
MaxTime == 2

VARIABLES
    ClusterSpec,   \* GardenerCluster.Spec
    State,         \* GardenerCluster.Status.State
    Conditions,    \* GardenerCluster.Status.Conditions ([]metav1.Condition)
    now,           \* the wall clock read by metav1.Now()
    last           \* history of the most recent call: the mutator (fn), its
                   \* conditionType (ctype), whether it returned (ok), its
                   \* other arguments and the time it read (args: none when
                   \* it panicked before building its condition) and whether
                   \* it repeated the call before it (again)

vars == <<ClusterSpec, State, Conditions, now, last>>

----------------------------------------------------------------------------
\* type State string and its constants; the zero value is the empty string.
NoState == ""
ReadyState == "Ready"
ErrorState == "Error"

\* type ConditionReason string and its constants, with the values the source
\* assigns to them.
ConditionReasonKubeconfigSecretCreated == "KubeconfigSecretCreated"
ConditionReasonKubeconfigSecretRotated == "KubeconfigSecretRotated"
ConditionReasonFailedToGetSecret == "FailedToCheckSecret"
ConditionReasonFailedToCreateSecret == "ConditionReasonFailedToCreateSecret"
ConditionReasonFailedToUpdateSecret == "FailedToUpdateSecret"
ConditionReasonFailedToGetKubeconfig == "FailedToGetKubeconfig"

\* The six constants of the const block.
ConditionReasons ==
    { ConditionReasonKubeconfigSecretCreated,
      ConditionReasonKubeconfigSecretRotated,
      ConditionReasonFailedToGetSecret,
      ConditionReasonFailedToCreateSecret,
      ConditionReasonFailedToUpdateSecret,
      ConditionReasonFailedToGetKubeconfig }

\* ConditionReason is a string type: a caller may convert any string to it.
UndefinedReason == "SomethingElse"
ReasonInputs == ConditionReasons \cup {UndefinedReason}

\* type ConditionType string; one constant, and any other string converts.
ConditionTypeKubeconfigManagement == "KubeconfigManagement"
OtherConditionType == "OtherCondition"
ConditionTypeInputs == {ConditionTypeKubeconfigManagement, OtherConditionType}

\* metav1.ConditionStatus, the conditionStatus parameter (metav1.ConditionTrue,
\* metav1.ConditionFalse; the code only stores the value and compares it).
ConditionStatusInputs == {"True", "False"}

\* The error parameter: the nil interface value (the empty tuple), or an error
\* value carrying the text its Error() method returns.
NilError == <<>>
ErrorTexts == {"shoot not found"}
ErrorInputs == {NilError} \cup {<<text>> : text \in ErrorTexts}

\* error.Error() of a non-nil error.
ErrorText(error) == error[1]

\* The Spec of the object the methods are called on.
InitialSpec ==
    [ Shoot |-> [Name |-> "shoot-1"],
      Kubeconfig |-> [Secret |-> [Name |-> "kubeconfig-shoot-1",
                                  Namespace |-> "kcp-system",
                                  Key |-> "config"]] ]

----------------------------------------------------------------------------
\* getMessage with the case of ConditionReasonFailedToGetSecret left out of
\* the switch, so that it falls through to the default.
getMessage_MissingCase(reason) ==
    CASE reason = ConditionReasonKubeconfigSecretCreated -> "Secret created successfully."
      [] reason = ConditionReasonKubeconfigSecretRotated -> "Secret rotated successfully."
      [] reason = ConditionReasonFailedToCreateSecret -> "Failed to create secret."
      [] reason = ConditionReasonFailedToUpdateSecret -> "Failed to rotate secret."
      [] reason = ConditionReasonFailedToGetKubeconfig -> "Failed to get kubeconfig."
      [] OTHER -> "Unknown condition"

\* func getMessage(reason ConditionReason) string
getMessage(reason) ==
    CASE reason = ConditionReasonKubeconfigSecretCreated -> "Secret created successfully."
      [] reason = ConditionReasonKubeconfigSecretRotated -> "Secret rotated successfully."
      [] reason = ConditionReasonFailedToCreateSecret -> "Failed to create secret."
      [] reason = ConditionReasonFailedToUpdateSecret -> "Failed to rotate secret."
      [] reason = ConditionReasonFailedToGetSecret -> "Failed to get secret."
      [] reason = ConditionReasonFailedToGetKubeconfig -> "Failed to get kubeconfig."
      [] OTHER -> "Unknown condition"

\* Message: getMessage(reason) in UpdateConditionForReadyState: the sentence alone.
ReadyMessage(reason) == <<getMessage(reason)>>

\* The error message built without the error's text.
ErrorMessage_NoCause(reason, error) == <<getMessage(reason)>>

\* fmt.Sprintf("%s Error: %s", getMessage(reason), error.Error()): the
\* sentence, the literal " Error: ", the error's text.
ErrorMessage(reason, error) == <<getMessage(reason), " Error: ", ErrorText(error)>>

\* metav1.Now(): the current clock reading (never the zero time).
Now == now

\* metav1.Time.IsZero
IsZero(t) == t = 0

\* The condition literal built by UpdateConditionForReadyState.
ReadyCondition(conditionType, reason, conditionStatus) ==
    [ Type |-> conditionType,
      Status |-> conditionStatus,
      LastTransitionTime |-> Now,
      Reason |-> reason,
      Message |-> ReadyMessage(reason) ]

\* The condition literal built by UpdateConditionForErrorState.
ErrorCondition(conditionType, reason, conditionStatus, error) ==
    [ Type |-> conditionType,
      Status |-> conditionStatus,
      LastTransitionTime |-> Now,
      Reason |-> reason,
      Message |-> ErrorMessage(reason, error) ]

\* meta.RemoveStatusCondition: keeps, in order, the entries of another type.
RECURSIVE RemoveStatusCondition(_, _)
RemoveStatusCondition(conditions, conditionType) ==
    IF conditions = <<>> THEN <<>>
    ELSE LET rest == RemoveStatusCondition(Tail(conditions), conditionType)
         IN IF Head(conditions).Type # conditionType
            THEN <<Head(conditions)>> \o rest
            ELSE rest

\* meta.FindStatusCondition: the index of the first entry of the type, 0 if none.
FindStatusCondition(conditions, conditionType) ==
    IF \E i \in 1..Len(conditions) : conditions[i].Type = conditionType
    THEN CHOOSE i \in 1..Len(conditions) :
            /\ conditions[i].Type = conditionType
            /\ \A j \in 1..(i - 1) : conditions[j].Type # conditionType
    ELSE 0

\* meta.SetStatusCondition: appends when the type is absent (stamping a zero
\* time); otherwise updates the entry in place, moving LastTransitionTime only
\* when Status changes.
SetStatusCondition(conditions, newCondition) ==
    LET i == FindStatusCondition(conditions, newCondition.Type)
    IN IF i = 0
       THEN Append(conditions,
                   IF IsZero(newCondition.LastTransitionTime)
                   THEN [newCondition EXCEPT !.LastTransitionTime = Now]
                   ELSE newCondition)
       ELSE LET old == conditions[i]
                stamped ==
                    IF old.Status # newCondition.Status
                    THEN [old EXCEPT !.Status = newCondition.Status,
                                     !.LastTransitionTime =
                                         IF ~IsZero(newCondition.LastTransitionTime)
                                         THEN newCondition.LastTransitionTime
                                         ELSE Now]
                    ELSE old
            IN [conditions EXCEPT ![i] =
                   [stamped EXCEPT !.Reason = newCondition.Reason,
                                   !.Message = newCondition.Message]]

\* The list overwritten with the new condition alone.
ReplaceCondition_Overwrite(conditions, condition) == <<condition>>

\* The new condition appended without removing the entry of its type.
ReplaceCondition_AppendOnly(conditions, condition) == Append(conditions, condition)

\* The two library calls that end both mutators: RemoveStatusCondition, then
\* SetStatusCondition.
ReplaceCondition(conditions, condition) ==
    SetStatusCondition(RemoveStatusCondition(conditions, condition.Type), condition)

----------------------------------------------------------------------------
\* History before the first call.
NoCall == [fn |-> "none", ctype |-> "", ok |-> TRUE, args |-> <<>>, again |-> FALSE]

\* History of a call that returned: its arguments and the clock reading it
\* took.  It repeats the previous call when that was the same mutator with
\* the same type, reason, status and error.
Returned(fn, conditionType, reason, conditionStatus, error) ==
    [ fn |-> fn, ctype |-> conditionType, ok |-> TRUE,
      args |-> << [reason |-> reason, status |-> conditionStatus,
                   error |-> error, time |-> now] >>,
      again |-> /\ last.fn = fn
                /\ last.ctype = conditionType
                /\ last.args # <<>>
                /\ last.args[1].reason = reason
                /\ last.args[1].status = conditionStatus
                /\ last.args[1].error = error ]

\* History of an UpdateConditionForErrorState call that panicked on its nil
\* error, before it built a condition: it repeats the previous call when that
\* one panicked the same way for the same type.
Panicked(conditionType) ==
    [ fn |-> "Error", ctype |-> conditionType, ok |-> FALSE, args |-> <<>>,
      again |-> /\ last.fn = "Error"
                /\ ~last.ok
                /\ last.ctype = conditionType ]

Init ==
    /\ ClusterSpec = InitialSpec
    /\ State = NoState
    /\ Conditions = <<>>
    /\ now = 1
    /\ last = NoCall

\* func (cluster *GardenerCluster) UpdateConditionForReadyState(...)
UpdateConditionForReadyState(conditionType, reason, conditionStatus) ==
    LET condition == ReadyCondition(conditionType, reason, conditionStatus)
    IN /\ State' = ReadyState
       /\ Conditions' = ReplaceCondition(Conditions, condition)
       /\ last' = Returned("Ready", conditionType, reason, conditionStatus, NilError)
       /\ UNCHANGED <<ClusterSpec, now>>

\* func (cluster *GardenerCluster) UpdateConditionForErrorState(...)
\* State is assigned first; error.Error() on a nil error panics while the
\* condition literal is being built, before Conditions is touched.
UpdateConditionForErrorState(conditionType, reason, conditionStatus, error) ==
    /\ State' = ErrorState
    /\ IF error = NilError
       THEN /\ Conditions' = Conditions
            /\ last' = Panicked(conditionType)
       ELSE LET condition == ErrorCondition(conditionType, reason, conditionStatus, error)
            IN /\ Conditions' = ReplaceCondition(Conditions, condition)
               /\ last' = Returned("Error", conditionType, reason, conditionStatus, error)
    /\ UNCHANGED <<ClusterSpec, now>>

\* The clock advances between calls.
Tick ==
    /\ now < MaxTime
    /\ now' = now + 1
    /\ UNCHANGED <<ClusterSpec, State, Conditions, last>>

Next ==
    \/ \E t \in ConditionTypeInputs, r \in ReasonInputs, s \in ConditionStatusInputs :
          UpdateConditionForReadyState(t, r, s)
    \/ \E t \in ConditionTypeInputs, r \in ReasonInputs, s \in ConditionStatusInputs,
          e \in ErrorInputs :
          UpdateConditionForErrorState(t, r, s, e)
    \/ Tick

Spec == Init /\ [][Next]_vars

----------------------------------------------------------------------------
\* Vocabulary of the properties.

\* How many entries of the type the list holds.
CountOfType(conditions, conditionType) ==
    Cardinality({i \in 1..Len(conditions) : conditions[i].Type = conditionType})

\* The entries of every other type, in order.
OthersOf(conditions, conditionType) ==
    SelectSeq(conditions, LAMBDA c : c.Type # conditionType)

\* The list without its timestamps.
UntimedList(conditions) ==
    [i \in 1..Len(conditions) |->
        [ Type |-> conditions[i].Type, Status |-> conditions[i].Status,
          Reason |-> conditions[i].Reason, Message |-> conditions[i].Message ]]

\* The list holds exactly one entry of the type and P holds of it.
HasOneEntry(conditions, conditionType, P(_)) ==
    /\ CountOfType(conditions, conditionType) = 1
    /\ \A i \in 1..Len(conditions) :
          conditions[i].Type = conditionType => P(conditions[i])

\* Some call has been made / the last call returned.
Called == last.fn # "none"
LastReturned == Called /\ last.ok

\* The message a call with these arguments is to record: the lookup sentence,
\* followed for an error call by " Error: " and the error's text.
ExpectedMessage(fn, reason, error) ==
    IF fn = "Ready" THEN <<getMessage(reason)>>
    ELSE <<getMessage(reason), " Error: ", error[1]>>

----------------------------------------------------------------------------
\* C1: condition uniqueness.  The first call made on an empty status with
\* type KubeconfigManagement leaves exactly one entry of that type, and no
\* call leaves two entries of one type.
C1_ExactlyOneEntry ==
    [][ /\ (/\ State = NoState /\ Conditions = <<>>
            /\ last'.fn # "none"
            /\ last'.ctype = ConditionTypeKubeconfigManagement)
           => CountOfType(Conditions', ConditionTypeKubeconfigManagement) = 1
        /\ \A t \in ConditionTypeInputs : CountOfType(Conditions', t) <= 1 ]_vars

\* C1, the part the code keeps whatever the calls: never two entries of one
\* type, and exactly one of a type once a call for it has returned.
C1_AtMostOnePerType ==
    /\ \A t \in ConditionTypeInputs : CountOfType(Conditions, t) <= 1
    /\ LastReturned => CountOfType(Conditions, last.ctype) = 1

\* C2: State=Ready implies the KubeconfigManagement condition carries one of
\* the two success reasons; State=Error implies it carries one of the four
\* failure reasons and its message ends with an error text.  Stated of the
\* states left by a KubeconfigManagement call that returned.
C2_StateAgreesWithReason ==
    (LastReturned /\ last.ctype = ConditionTypeKubeconfigManagement)
    => /\ State = ReadyState =>
            HasOneEntry(Conditions, ConditionTypeKubeconfigManagement,
                LAMBDA c : c.Reason \in { ConditionReasonKubeconfigSecretCreated,
                                          ConditionReasonKubeconfigSecretRotated })
       /\ State = ErrorState =>
            HasOneEntry(Conditions, ConditionTypeKubeconfigManagement,
                LAMBDA c : /\ c.Reason \in { ConditionReasonFailedToGetSecret,
                                             ConditionReasonFailedToCreateSecret,
                                             ConditionReasonFailedToUpdateSecret,
                                             ConditionReasonFailedToGetKubeconfig }
                           /\ c.Message[Len(c.Message)] \in ErrorTexts)

\* C3: the status reflects the most recent call only.  Once a call has been
\* made, State is Ready exactly when the last call was
\* UpdateConditionForReadyState and Error exactly when it was
\* UpdateConditionForErrorState; after a KubeconfigManagement call there is a
\* single KubeconfigManagement condition, and it carries the reason, status
\* and message of that call.
C3_LastCallWins ==
    Called
    => /\ State \in {ReadyState, ErrorState}
       /\ State = ReadyState <=> last.fn = "Ready"
       /\ State = ErrorState <=> last.fn = "Error"
       /\ last.ctype = ConditionTypeKubeconfigManagement
          => HasOneEntry(Conditions, ConditionTypeKubeconfigManagement,
                LAMBDA c : last.args # <<>> =>
                   /\ c.Reason = last.args[1].reason
                   /\ c.Status = last.args[1].status
                   /\ c.Message = ExpectedMessage(last.fn, last.args[1].reason,
                                                  last.args[1].error))

\* C3, for the calls that return: the entry of the call's type carries the
\* reason, status and message of that call.
C3_LastReturnedCallWins ==
    /\ Called => (State = ReadyState <=> last.fn = "Ready")
    /\ Called => (State = ErrorState <=> last.fn = "Error")
    /\ LastReturned
       => HasOneEntry(Conditions, last.ctype,
             LAMBDA c : /\ c.Reason = last.args[1].reason
                        /\ c.Status = last.args[1].status
                        /\ c.Message = ExpectedMessage(last.fn, last.args[1].reason,
                                                       last.args[1].error))

\* C4: every reason string recorded from one of the package's
\* ConditionReason constants belongs to the published closed set.
C4_ReasonInClosedSet ==
    \A i \in 1..Len(Conditions) :
       Conditions[i].Reason \in ConditionReasons
       => Conditions[i].Reason \in
             { "KubeconfigSecretCreated", "KubeconfigSecretRotated",
               "FailedToCreateSecret", "FailedToUpdateSecret",
               "FailedToGetSecret", "FailedToGetKubeconfig" }

\* C5: after UpdateConditionForErrorState with a non-nil error e, State is
\* Error and the condition of the call's type has the call's reason and a
\* message that starts with the lookup sentence of the reason and ends with
\* the text of e; with reason FailedToGetKubeconfig the recorded reason string
\* is "FailedToGetKubeconfig".  After UpdateConditionForReadyState the message
\* is exactly the lookup sentence.
C5_MessageEmbedsCause ==
    /\ (last.fn = "Error" /\ last.ok)
       => /\ State = ErrorState
          /\ HasOneEntry(Conditions, last.ctype,
                LAMBDA c : /\ c.Reason = last.args[1].reason
                           /\ Len(c.Message) >= 2
                           /\ c.Message[1] = getMessage(last.args[1].reason)
                           /\ c.Message[Len(c.Message)] = last.args[1].error[1]
                           /\ last.args[1].reason = ConditionReasonFailedToGetKubeconfig
                                 => /\ c.Reason = "FailedToGetKubeconfig"
                                    /\ c.Message[1] = "Failed to get kubeconfig.")
    /\ last.fn = "Ready"
       => HasOneEntry(Conditions, last.ctype,
             LAMBDA c : c.Message = <<getMessage(last.args[1].reason)>>)

\* C5 witness: an error call with reason FailedToGetKubeconfig and a non-nil
\* error has returned and its three-part message is in the list.
C5_Witness ==
    /\ last.fn = "Error" /\ last.ok
    /\ last.args[1].reason = ConditionReasonFailedToGetKubeconfig
    /\ State = ErrorState
    /\ \E i \in 1..Len(Conditions) :
          /\ Conditions[i].Type = last.ctype
          /\ Len(Conditions[i].Message) = 3

\* C6: every call stamps the entry of its type with the time of the call:
\* after each step in which a mutator acts, the list holds one entry of the
\* call's type and its LastTransitionTime is the clock reading of the call.
C6_StampedOnEveryCall ==
    [][ last'.fn # "none" /\ <<State, Conditions, last>>' # <<State, Conditions, last>>
        => HasOneEntry(Conditions', last'.ctype,
              LAMBDA c : c.LastTransitionTime = now) ]_vars

\* C6, for the calls that return: the entry carries the time of the call also
\* when status, reason and message repeat those of the entry it replaces.
C6_StampedWhenReturned ==
    LastReturned
    => HasOneEntry(Conditions, last.ctype,
          LAMBDA c : c.LastTransitionTime = last.args[1].time)

\* C7: getMessage is exhaustive over the six defined reasons: none of them
\* yields the fallback text, no two of them share a sentence, a value outside
\* the enumeration yields the fallback, and the same holds of every sentence
\* recorded in the list.
C7_MessageTableExhaustive ==
    /\ \A r \in ConditionReasons : getMessage(r) # "Unknown condition"
    /\ \A r1, r2 \in ConditionReasons : r1 # r2 => getMessage(r1) # getMessage(r2)
    /\ \A r \in ReasonInputs \ ConditionReasons : getMessage(r) = "Unknown condition"
    /\ \A i \in 1..Len(Conditions) :
          (Conditions[i].Message[1] = "Unknown condition")
          <=> (Conditions[i].Reason \notin ConditionReasons)
    /\ \A i, j \in 1..Len(Conditions) :
          (/\ Conditions[i].Reason \in ConditionReasons
           /\ Conditions[j].Reason \in ConditionReasons
           /\ Conditions[i].Reason # Conditions[j].Reason)
          => Conditions[i].Message[1] # Conditions[j].Message[1]

\* C7 witness: the list holds the sentence of a defined reason and the
\* fallback text of a value outside the enumeration.
C7_Witness ==
    \E i, j \in 1..Len(Conditions) :
       /\ Conditions[i].Reason = ConditionReasonFailedToGetSecret
       /\ Conditions[i].Message[1] = "Failed to get secret."
       /\ Conditions[j].Reason = UndefinedReason
       /\ Conditions[j].Message[1] = "Unknown condition"

C9_Idempotent ==
    [][ (last'.again /\ last' # last)
        => /\ State' = State
           /\ Len(Conditions') = Len(Conditions)
           /\ UntimedList(Conditions') = UntimedList(Conditions) ]_vars

\* C9 witness: a call that returned repeated the call before it, at the
\* latest clock reading.
C9_Witness ==
    /\ last.again /\ last.ok
    /\ last.args[1].time = MaxTime
    /\ Len(Conditions) = 2

\* C10: State and the condition entry are updated together: whenever State is
\* Error, the last call returned and the last entry of the list is the
\* condition of that call.
C10_StateAndConditionTogether ==
    State = ErrorState
    => /\ last.args # <<>>
       /\ Conditions # <<>>
       /\ LET c == Conditions[Len(Conditions)]
          IN /\ c.Type = last.ctype
             /\ c.Reason = last.args[1].reason
             /\ c.Status = last.args[1].status
             /\ c.LastTransitionTime = last.args[1].time

====
